---------------------------- MODULE Spec2Model ----------------------------
(***************************************************************************)
(* A model of filedb: a file-system backed object store with a ledger     *)
(* (fileStat), per-field equality indexes (fileIndex) and the coordinator *)
(* (fileDB).  Strings are sequences of byte codes, a file is the sequence *)
(* of bytes it holds, a path is the sequence of its names below the root. *)
(***************************************************************************)
EXTENDS Integers, Sequences, FiniteSets, TLC

(***************************************************************************)
(* Bounds of the model.                                                    *)
(***************************************************************************)
\* identifiers handed out beyond the identifier the store starts with
MaxIssue == 3
\* records alive at once
MaxLive == 2
\* files removed or damaged from under the engine
MaxRemove == 1

(***************************************************************************)
(* Bytes and strings.                                                      *)
(***************************************************************************)
Tab == <<9>>
Newline == <<10>>
Slash == <<47>>
DotDat == <<46, 100, 97, 116>>
DotIdx == <<46, 105, 100, 120>>
Underscore == <<95>>
StatName == <<95, 115, 116, 97, 116, 46, 100, 97, 116>>
OpenBrace == <<123>>
CloseBrace == <<125>>
Comma == <<44>>

IsDigit(c) == c >= 48 /\ c <= 57

RECURSIVE Itoa(_)
Itoa(n) ==
  IF n < 0 THEN <<45>> \o Itoa(-n)
  ELSE IF n < 10 THEN <<48 + n>>
  ELSE Itoa(n \div 10) \o <<48 + (n % 10)>>

\* the number of leading decimal digits of s
RECURSIVE DigitPrefixLen(_)
DigitPrefixLen(s) ==
  IF s = <<>> \/ ~IsDigit(Head(s)) THEN 0 ELSE 1 + DigitPrefixLen(Tail(s))

RECURSIVE DigitsValue(_, _)
DigitsValue(s, acc) ==
  IF s = <<>> THEN acc ELSE DigitsValue(Tail(s), acc * 10 + (Head(s) - 48))

\* fmt's %d verb on the text s: [ok, val, rest]; ok is FALSE when s does not
\* start with an (optionally signed) decimal number
ScanInt(s) ==
  LET neg == s # <<>> /\ Head(s) = 45
      body == IF s # <<>> /\ (Head(s) = 45 \/ Head(s) = 43) THEN Tail(s) ELSE s
      n == DigitPrefixLen(body)
  IN IF n = 0 THEN [ok |-> FALSE, val |-> 0, rest |-> s]
     ELSE [ok |-> TRUE,
           val |-> (IF neg THEN -1 ELSE 1) * DigitsValue(SubSeq(body, 1, n), 0),
           rest |-> SubSeq(body, n + 1, Len(body))]

\* strings.Split(s, sep) for a one-byte separator
RECURSIVE SplitAcc(_, _, _, _)
SplitAcc(s, sep, cur, acc) ==
  IF s = <<>> THEN Append(acc, cur)
  ELSE IF Head(s) = sep THEN SplitAcc(Tail(s), sep, <<>>, Append(acc, cur))
  ELSE SplitAcc(Tail(s), sep, Append(cur, Head(s)), acc)

Split(s, sep) == SplitAcc(s, sep, <<>>, <<>>)

\* strings.Join(parts, sep)
RECURSIVE Join(_, _)
Join(parts, sep) ==
  IF parts = <<>> THEN <<>>
  ELSE IF Len(parts) = 1 THEN parts[1]
  ELSE parts[1] \o sep \o Join(Tail(parts), sep)

\* byte-wise string order (the order os.ReadDir sorts names in)
RECURSIVE StrLess(_, _)
StrLess(a, b) ==
  IF b = <<>> THEN FALSE
  ELSE IF a = <<>> THEN TRUE
  ELSE IF Head(a) # Head(b) THEN Head(a) < Head(b)
  ELSE StrLess(Tail(a), Tail(b))


(***************************************************************************)
(* Errors.                                                                 *)
(***************************************************************************)
Nil == [kind |-> "nil", field |-> ""]
ErrNotExist == [kind |-> "not exist", field |-> ""]
ErrDecode == [kind |-> "decode", field |-> ""]
ErrUnique(field) == [kind |-> "unique index violation", field |-> field]
ErrPanic == [kind |-> "panic", field |-> ""]
ErrIsDir == [kind |-> "is a directory", field |-> ""]

(***************************************************************************)
(* The entity of the tests (TestEntity) and the record codec.              *)
(***************************************************************************)
NameField == "Name"
AgeField == "Age"

\* TestEntity.GetValue
GetValue(e, field) ==
  IF field = NameField THEN e.Name
  ELSE IF field = AgeField THEN Itoa(e.Age)
  ELSE <<>>

\* TestEntity.SetID
SetID(e, id) == [e EXCEPT !.ID = id]

\* the bytes of a field's name, as they appear in the index file's name
FieldBytes(field) ==
  IF field = NameField THEN <<78, 97, 109, 101>>
  ELSE IF field = AgeField THEN <<65, 103, 101>>
  ELSE <<>>

\* Marshal as it would be were the record encoded before SetID
MarshalUnnumbered(e) ==
  OpenBrace \o Itoa(0) \o Comma \o e.Name \o Comma \o Itoa(e.Age) \o CloseBrace

\* json.Marshal of an entity: an object of its three fields
Marshal(e) ==
  OpenBrace \o Itoa(e.ID) \o Comma \o e.Name \o Comma \o Itoa(e.Age) \o CloseBrace

ZeroEntity == [ID |-> 0, Name |-> <<>>, Age |-> 0]

\* the entity of the decoded fields: [err, e]
DecodedEntity(id, name, age) ==
  IF id.ok /\ id.rest = <<>> /\ age.ok /\ age.rest = <<>>
  THEN [err |-> Nil, e |-> [ID |-> id.val, Name |-> name, Age |-> age.val]]
  ELSE [err |-> ErrDecode, e |-> ZeroEntity]

DecodedObject(parts) ==
  IF Len(parts) # 3 THEN [err |-> ErrDecode, e |-> ZeroEntity]
  ELSE DecodedEntity(ScanInt(parts[1]), parts[2], ScanInt(parts[3]))

\* json.Unmarshal into a new entity: [err, e]; bytes that are not an object of the
\* entity's fields do not decode
Unmarshal(bytes) ==
  IF Len(bytes) < 2 \/ <<Head(bytes)>> # OpenBrace \/ <<bytes[Len(bytes)]>> # CloseBrace
  THEN [err |-> ErrDecode, e |-> ZeroEntity]
  ELSE DecodedObject(Split(SubSeq(bytes, 2, Len(bytes) - 1), Comma[1]))

(***************************************************************************)
(* The file system below the store's root: files maps the path of each     *)
(* file to its bytes, dirs is the set of directories (<<>> is the root).   *)
(***************************************************************************)
Root == <<>>
Parent(path) == SubSeq(path, 1, Len(path) - 1)
Exists(fs, path) == path \in DOMAIN fs.files \/ path \in fs.dirs

\* a path string relative to the root, as the names it goes through
PathOf(str) == IF str = <<>> THEN Root ELSE Split(str, Slash[1])

\* os.Mkdir: needs the parent, refuses an existing name
Mkdir(fs, path) ==
  IF Exists(fs, path) \/ (path # Root /\ Parent(path) \notin fs.dirs) THEN fs
  ELSE [fs EXCEPT !.dirs = @ \cup {path}]

\* CreateDir
CreateDir(fs, path) == IF ~Exists(fs, path) THEN Mkdir(fs, path) ELSE fs

PutFile(files, path, bytes) ==
  [p \in DOMAIN files \cup {path} |-> IF p = path THEN bytes ELSE files[p]]

\* os.WriteFile: [fs, err]
WriteFile(fs, path, bytes) ==
  IF path \in fs.dirs \/ path = Root THEN [fs |-> fs, err |-> ErrIsDir]
  ELSE IF Parent(path) \notin fs.dirs THEN [fs |-> fs, err |-> ErrNotExist]
  ELSE [fs |-> [fs EXCEPT !.files = PutFile(@, path, bytes)], err |-> Nil]

\* os.Remove of a file: [fs, err]
Remove(fs, path) ==
  IF path \notin DOMAIN fs.files THEN [fs |-> fs, err |-> ErrNotExist]
  ELSE [fs |-> [fs EXCEPT !.files = [p \in DOMAIN @ \ {path} |-> @[p]]], err |-> Nil]

\* os.OpenFile(path, os.O_CREATE, 0644): creates the file when it is absent; the
\* descriptor is read-only, so the writes that follow on it write nothing
CreateReadOnly(fs, path) ==
  IF Exists(fs, path) \/ Parent(path) \notin fs.dirs THEN fs
  ELSE [fs EXCEPT !.files = PutFile(@, path, <<>>)]

\* ReadObject: [err, e]
ReadObject(fs, path) ==
  IF path \notin DOMAIN fs.files THEN [err |-> ErrNotExist, e |-> ZeroEntity]
  ELSE Unmarshal(fs.files[path])

(***************************************************************************)
(* fileDB.GetObjectPath: the path of a record, and the directories it      *)
(* creates on the way.                                                     *)
(***************************************************************************)
\* the non-zero decimal digits of i, least significant first
RECURSIVE ShardNums(_)
ShardNums(i) ==
  IF i <= 0 THEN <<>>
  ELSE (IF i % 10 > 0 THEN <<Itoa(i % 10)>> ELSE <<>>) \o ShardNums(i \div 10)

\* the path as it would be were the file named by the identifier modulo 1000
ObjectPathStringShort(id) == Join(ShardNums(id \div 1000), Slash) \o Itoa(id % 1000) \o DotDat

ObjectPathString(id) == Join(ShardNums(id \div 1000), Slash) \o Itoa(id) \o DotDat

GetObjectPath(id) == PathOf(ObjectPathString(id))

\* the CreateDir calls of GetObjectPath, one per prefix of nums, in order
RECURSIVE CreateShardDirs(_, _, _)
CreateShardDirs(fs, nums, k) ==
  IF k > Len(nums) THEN fs
  ELSE CreateShardDirs(CreateDir(fs, PathOf(Join(SubSeq(nums, 1, k), Slash))), nums, k + 1)

\* the file system after GetObjectPath(id)
TouchObjectPath(fs, id) == CreateShardDirs(fs, ShardNums(id \div 1000), 1)

(***************************************************************************)
(* The ledger: fileStat.                                                   *)
(***************************************************************************)
StatPath == <<StatName>>

\* NewFileStat
NewFileStat == [nextID |-> 1, count |-> 0]

\* fmt.Sprintf("%d\n%d\n", nextID, count)
StatText(st) == Itoa(st.nextID) \o Newline \o Itoa(st.count) \o Newline

\* fileStat.Save: truncates and writes the file, which must exist
StatSave(fs, st) ==
  IF StatPath \notin DOMAIN fs.files THEN fs
  ELSE [fs EXCEPT !.files = PutFile(@, StatPath, StatText(st))]

\* fileStat.Load: fmt.Fscanf(file, "%d\n%d\n", &nextID, &count) stores the
\* numbers it reads and stops at the first byte that does not match
ScannedCount(st, a, b) ==
  IF ~b.ok THEN [st EXCEPT !.nextID = a.val] ELSE [nextID |-> a.val, count |-> b.val]

ScannedNextID(st, a) ==
  IF ~a.ok THEN st
  ELSE IF a.rest = <<>> \/ <<Head(a.rest)>> # Newline THEN [st EXCEPT !.nextID = a.val]
  ELSE ScannedCount(st, a, ScanInt(Tail(a.rest)))

\* Load as it would be were the next identifier taken from the count
StatLoadCounted(fs, st) ==
  [nextID |-> ScannedNextID(st, ScanInt(fs.files[StatPath])).count + 1,
   count |-> ScannedNextID(st, ScanInt(fs.files[StatPath])).count]

StatLoad(fs, st) == ScannedNextID(st, ScanInt(fs.files[StatPath]))

\* fileStat.Init: [fs, st, err]
StatInit(fs, st) ==
  IF ~Exists(fs, StatPath)
  THEN IF Parent(StatPath) \notin fs.dirs THEN [fs |-> fs, st |-> st, err |-> ErrNotExist]
       ELSE [fs |-> CreateReadOnly(fs, StatPath), st |-> st, err |-> Nil]
  ELSE [fs |-> fs, st |-> StatLoad(fs, st), err |-> Nil]

\* GetNextID as it would be without its Save
GetNextIDUnsaved(fs, st, peek) ==
  IF peek THEN [id |-> st.nextID, st |-> st, fs |-> fs]
  ELSE [id |-> st.nextID, st |-> [st EXCEPT !.nextID = @ + 1], fs |-> fs]

\* GetNextID as it would be were peek not looked at
GetNextIDAlways(fs, st, peek) ==
  [id |-> st.nextID, st |-> [st EXCEPT !.nextID = @ + 1],
   fs |-> StatSave(fs, [st EXCEPT !.nextID = @ + 1])]

\* fileStat.GetNextID: [id, st, fs]
GetNextID(fs, st, peek) ==
  IF peek THEN [id |-> st.nextID, st |-> st, fs |-> fs]
  ELSE LET st2 == [st EXCEPT !.nextID = @ + 1]
       IN [id |-> st.nextID, st |-> st2, fs |-> StatSave(fs, st2)]

\* AddCount as it would be without its Save
AddCountUnsaved(fs, st, c) == [st |-> [st EXCEPT !.count = @ + c], fs |-> fs]

\* fileStat.AddCount: [st, fs]
AddCount(fs, st, c) ==
  LET st2 == [st EXCEPT !.count = @ + c]
  IN [st |-> st2, fs |-> StatSave(fs, st2)]

(***************************************************************************)
(* The index engine: fileIndex.  A field's index is a map from a value to  *)
(* the sequence of the entries of its bucket.                              *)
(***************************************************************************)
ErrInvalidIndex == [kind |-> "invalid index file format", field |-> ""]

Range(seq) == {seq[i] : i \in 1..Len(seq)}

EmptyMap == [v \in {} |-> <<>>]
Bucket(m, v) == IF v \in DOMAIN m THEN m[v] ELSE <<>>
MapPut(m, v, b) == [k \in DOMAIN m \cup {v} |-> IF k = v THEN b ELSE m[k]]

\* NewFileIndex
NewFileIndex(cfgs) == [f \in {cfgs[i].Field : i \in 1..Len(cfgs)} |-> EmptyMap]

\* fileIndex.GetPath
IndexPath(field) == PathOf(Underscore \o FieldBytes(field) \o DotIdx)

\* getFields
GetFields(e, includes) == [f \in Range(includes) |-> GetValue(e, f)]

\* createIndexEntry
CreateIndexEntry(e, field, includes) ==
  [Value |-> GetValue(e, field), ID |-> e.ID, Others |-> GetFields(e, includes)]

\* slices.IndexFunc(entries, idComparer): the first position holding id, 0 for none
IndexOfID(entries, id) ==
  IF \E i \in 1..Len(entries) : entries[i].ID = id
  THEN CHOOSE i \in 1..Len(entries) :
         entries[i].ID = id /\ \A j \in 1..(i - 1) : entries[j].ID # id
  ELSE 0

\* the removal as it would be were the last entry of the bucket taken out
RemoveAtEnd(entries, i) == SubSeq(entries, 1, Len(entries) - 1)

\* the removal as it would be were the entry left in its bucket
RemoveAtNone(entries, i) == entries

RemoveAt(entries, i) == SubSeq(entries, 1, i - 1) \o SubSeq(entries, i + 1, Len(entries))

\* the include columns of a line
RECURSIVE OtherColumns(_, _)
OtherColumns(others, includes) ==
  IF includes = <<>> THEN <<>>
  ELSE Tab \o others[Head(includes)] \o OtherColumns(others, Tail(includes))

\* one line of an index file
EntryLine(key, entry, includes) ==
  key \o Tab \o Itoa(entry.ID) \o OtherColumns(entry.Others, includes) \o Newline

RECURSIVE BucketLines(_, _, _)
BucketLines(key, entries, includes) ==
  IF entries = <<>> THEN <<>>
  ELSE EntryLine(key, Head(entries), includes) \o BucketLines(key, Tail(entries), includes)

\* the lines of a map, its keys visited in the order keys
RECURSIVE MapLines(_, _, _)
MapLines(m, keys, includes) ==
  IF keys = <<>> THEN <<>>
  ELSE BucketLines(Head(keys), Bucket(m, Head(keys)), includes)
         \o MapLines(m, Tail(keys), includes)

\* the keys of m in the order this iteration of the map visits them
KeysInOrder(m, order) == SelectSeq(order, LAMBDA k : k \in DOMAIN m)

\* fileIndex.Save: truncates and rewrites the field's file, which must exist; the
\* order in which a map is iterated is not specified
Save(fs, m, ic, order) ==
  IF IndexPath(ic.Field) \notin DOMAIN fs.files THEN fs
  ELSE [fs EXCEPT !.files =
          PutFile(@, IndexPath(ic.Field), MapLines(m, KeysInOrder(m, order), ic.Include))]

\* the validation loop of Insert as it would be were no field checked
InsertUnchecked(cfgs, idx, e) == Nil

\* the validation loop of fileIndex.Insert: the error of the first unique field
\* whose bucket for e's value holds an entry
RECURSIVE InsertValidate(_, _, _)
InsertValidate(cfgs, idx, e) ==
  IF cfgs = <<>> THEN Nil
  ELSE LET ic == Head(cfgs)
       IN IF ic.Unique /\ Len(Bucket(idx[ic.Field], GetValue(e, ic.Field))) > 0
          THEN ErrUnique(ic.Field)
          ELSE InsertValidate(Tail(cfgs), idx, e)

\* the line fileIndex.Insert appends for e
InsertLine(e, ic) ==
  GetValue(e, ic.Field) \o Tab \o Itoa(e.ID) \o OtherColumns(GetFields(e, ic.Include), ic.Include)
    \o Newline

\* the second loop of fileIndex.Insert: appends the entry to the bucket, then the
\* line to the file, which must exist: [idx, fs, err]
RECURSIVE InsertApply(_, _, _, _)
InsertApply(cfgs, idx, fs, e) ==
  IF cfgs = <<>> THEN [idx |-> idx, fs |-> fs, err |-> Nil]
  ELSE LET ic == Head(cfgs)
           key == GetValue(e, ic.Field)
           index == Append(Bucket(idx[ic.Field], key), CreateIndexEntry(e, ic.Field, ic.Include))
           idx2 == [idx EXCEPT ![ic.Field] = MapPut(@, key, index)]
           path == IndexPath(ic.Field)
       IN IF path \notin DOMAIN fs.files
          THEN [idx |-> idx2, fs |-> fs, err |-> ErrNotExist]
          ELSE InsertApply(Tail(cfgs), idx2,
                           [fs EXCEPT !.files = PutFile(@, path, @[path] \o InsertLine(e, ic))], e)

\* fileIndex.Insert: [idx, fs, err]
IndexInsert(cfgs, idx, fs, e) ==
  LET v == InsertValidate(cfgs, idx, e)
  IN IF v # Nil THEN [idx |-> idx, fs |-> fs, err |-> v]
     ELSE InsertApply(cfgs, idx, fs, e)

\* the validation loop of Update as it would be were no field checked
UpdateUnchecked(cfgs, idx, e, prev) == Nil

\* the validation loop of Update as it would be were every field checked, the
\* unchanged ones too
UpdateValidateAll(cfgs, idx, e, prev) == InsertValidate(cfgs, idx, e)

\* the validation loop of fileIndex.Update: fields whose value is unchanged are
\* skipped
RECURSIVE UpdateValidate(_, _, _, _)
UpdateValidate(cfgs, idx, e, prev) ==
  IF cfgs = <<>> THEN Nil
  ELSE LET ic == Head(cfgs)
       IN IF GetValue(e, ic.Field) # GetValue(prev, ic.Field)
             /\ ic.Unique /\ Len(Bucket(idx[ic.Field], GetValue(e, ic.Field))) > 0
          THEN ErrUnique(ic.Field)
          ELSE UpdateValidate(Tail(cfgs), idx, e, prev)

\* the entry as it would be were its include columns left as they are
StaleOthers(entry, e, prev, includes) == entry

\* the entry at position i with the include columns that differ between e and prev
\* set to e's values
RefreshOthers(entry, e, prev, includes) ==
  [entry EXCEPT !.Others =
     [f \in DOMAIN @ |-> IF f \in Range(includes) /\ GetValue(e, f) # GetValue(prev, f)
                         THEN GetValue(e, f) ELSE @[f]]]

\* the update loop of fileIndex.Update; order[f] is the order in which Save
\* visits the keys of the map of field f: [idx, fs, err]
RECURSIVE UpdateApply(_, _, _, _, _, _)
UpdateApply(cfgs, idx, fs, e, prev, order) ==
  IF cfgs = <<>> THEN [idx |-> idx, fs |-> fs, err |-> Nil]
  ELSE
    LET ic == Head(cfgs)
        indexFile == idx[ic.Field]
        newKeyValue == GetValue(e, ic.Field)
        oldKeyValue == GetValue(prev, ic.Field)
    IN IF newKeyValue = oldKeyValue
       THEN LET indexEntries == Bucket(indexFile, newKeyValue)
                entryIndex == IndexOfID(indexEntries, prev.ID)
                changed == \E f \in Range(ic.Include) : GetValue(e, f) # GetValue(prev, f)
            IN IF ~changed THEN UpdateApply(Tail(cfgs), idx, fs, e, prev, order)
               ELSE IF entryIndex = 0 THEN [idx |-> idx, fs |-> fs, err |-> ErrPanic]
               ELSE LET m2 == MapPut(indexFile, newKeyValue,
                                     [indexEntries EXCEPT ![entryIndex] =
                                        RefreshOthers(@, e, prev, ic.Include)])
                    IN UpdateApply(Tail(cfgs), [idx EXCEPT ![ic.Field] = m2],
                                   Save(fs, m2, ic, order[ic.Field]), e, prev, order)
       ELSE LET oldIndexEntries == Bucket(indexFile, oldKeyValue)
                oldEntryIndex == IndexOfID(oldIndexEntries, prev.ID)
            IN IF oldEntryIndex = 0 THEN [idx |-> idx, fs |-> fs, err |-> ErrPanic]
               ELSE LET m1 == MapPut(indexFile, oldKeyValue, RemoveAt(oldIndexEntries, oldEntryIndex))
                        m2 == MapPut(m1, newKeyValue,
                                     Append(Bucket(m1, newKeyValue),
                                            CreateIndexEntry(e, ic.Field, ic.Include)))
                    IN UpdateApply(Tail(cfgs), [idx EXCEPT ![ic.Field] = m2],
                                   Save(fs, m2, ic, order[ic.Field]), e, prev, order)

\* fileIndex.Update: [idx, fs, err]
IndexUpdate(cfgs, idx, fs, e, prev, order) ==
  LET v == UpdateValidate(cfgs, idx, e, prev)
  IN IF v # Nil THEN [idx |-> idx, fs |-> fs, err |-> v]
     ELSE UpdateApply(cfgs, idx, fs, e, prev, order)

\* fileIndex.Delete: [idx, fs, err]
RECURSIVE IndexDelete(_, _, _, _, _)
IndexDelete(cfgs, idx, fs, prev, order) ==
  IF cfgs = <<>> THEN [idx |-> idx, fs |-> fs, err |-> Nil]
  ELSE LET ic == Head(cfgs)
           key == GetValue(prev, ic.Field)
           index == Bucket(idx[ic.Field], key)
           ci == IndexOfID(index, prev.ID)
       IN IF ci = 0 THEN [idx |-> idx, fs |-> fs, err |-> ErrPanic]
          ELSE LET m2 == MapPut(idx[ic.Field], key, RemoveAt(index, ci))
               IN IndexDelete(Tail(cfgs), [idx EXCEPT ![ic.Field] = m2],
                              Save(fs, m2, ic, order[ic.Field]), prev, order)

\* fileIndex.SearchIndex
SearchIndex(idx, field, value) ==
  IF field \in DOMAIN idx THEN Bucket(idx[field], value) ELSE <<>>

\* SearchId as it would be were the bucket read from its end
SearchIdReversed(idx, field, value) ==
  [i \in 1..Len(Bucket(idx[field], value)) |->
     Bucket(idx[field], value)[Len(Bucket(idx[field], value)) + 1 - i].ID]

\* fileIndex.SearchId
SearchId(idx, field, value) ==
  LET index == SearchIndex(idx, field, value)
  IN [i \in 1..Len(index) |-> index[i].ID]

\* fileIndex.SearchAllIndex, the map's keys visited in the order keys
RECURSIVE ConcatBuckets(_, _)
ConcatBuckets(m, keys) ==
  IF keys = <<>> THEN <<>> ELSE Bucket(m, Head(keys)) \o ConcatBuckets(m, Tail(keys))

SearchAllIndex(idx, field, order) ==
  IF field \in DOMAIN idx THEN ConcatBuckets(idx[field], KeysInOrder(idx[field], order))
  ELSE <<>>

\* bufio.ScanLines: the lines of a text, without the line ends
DropCR(line) ==
  IF line # <<>> /\ line[Len(line)] = 13 THEN SubSeq(line, 1, Len(line) - 1) ELSE line

ScanLines(text) ==
  LET pieces == Split(text, Newline[1])
      lines == IF pieces[Len(pieces)] = <<>> THEN SubSeq(pieces, 1, Len(pieces) - 1) ELSE pieces
  IN [i \in 1..Len(lines) |-> DropCR(lines[i])]

\* fmt.Sscanf(s, "%d", &id) on a zero id
SscanfID(s) == LET r == ScanInt(s) IN IF r.ok THEN r.val ELSE 0

\* the entry LoadIndex makes of the columns of a line
LineEntry(parts, includes) ==
  [Value |-> parts[1], ID |-> SscanfID(parts[2]),
   Others |-> [f \in Range(includes) |->
                 parts[2 + CHOOSE i \in 1..Len(includes) :
                             includes[i] = f /\ \A j \in (i + 1)..Len(includes) : includes[j] # f]]]

\* the loop of fileIndex.LoadIndex over the lines: [m, err]
RECURSIVE LoadLines(_, _, _)
LoadLines(lines, ic, m) ==
  IF lines = <<>> THEN [m |-> m, err |-> Nil]
  ELSE LET line == Head(lines)
           parts == Split(line, Tab[1])
       IN IF line = <<>> THEN LoadLines(Tail(lines), ic, m)
          ELSE IF Len(parts) # Len(ic.Include) + 2 THEN [m |-> m, err |-> ErrInvalidIndex]
          ELSE LoadLines(Tail(lines), ic,
                         MapPut(m, parts[1], Append(Bucket(m, parts[1]), LineEntry(parts, ic.Include))))

\* fileIndex.LoadIndex: [m, err]; m replaces the field's map unless the file
\* cannot be opened
LoadIndex(fs, ic, m) ==
  IF IndexPath(ic.Field) \notin DOMAIN fs.files THEN [m |-> m, err |-> ErrNotExist]
  ELSE LoadLines(ScanLines(fs.files[IndexPath(ic.Field)]), ic, EmptyMap)

\* os.ReadDir: the names in a directory, sorted
DirNames(fs, dir) ==
  {p[Len(p)] : p \in {q \in DOMAIN fs.files \cup fs.dirs : q # Root /\ Parent(q) = dir}}

RECURSIVE SortNames(_)
SortNames(S) ==
  IF S = {} THEN <<>>
  ELSE LET least == CHOOSE x \in S : \A y \in S \ {x} : StrLess(x, y)
       IN <<least>> \o SortNames(S \ {least})

\* ReadDir as it would be were the names returned in descending order
ReadDirDescending(fs, dir) ==
  [i \in 1..Cardinality(DirNames(fs, dir)) |->
     SortNames(DirNames(fs, dir))[Cardinality(DirNames(fs, dir)) + 1 - i]]

ReadDir(fs, dir) == SortNames(DirNames(fs, dir))

\* the assignment as it would be were the entry not appended but put alone
IndexReplace(m, key, entry) == MapPut(m, key, <<entry>>)

\* index[key] = append(index[key], entry)
IndexAppend(m, key, entry) == MapPut(m, key, Append(Bucket(m, key), entry))

\* fileIndex.rebuildIndexInternal: the map after the scan of dir.  A directory is
\* scanned in turn, whatever its scan returns; a file that ReadObject cannot
\* decode ends the scan of its directory
RECURSIVE RebuildIndexInternal(_, _, _, _)
RECURSIVE ScanEntries(_, _, _, _, _)
RECURSIVE ScanObject(_, _, _, _, _, _)
ScanEntries(fs, ic, dir, names, m) ==
  IF names = <<>> THEN m
  ELSE IF Append(dir, Head(names)) \in fs.dirs
  THEN ScanEntries(fs, ic, dir, Tail(names),
                   RebuildIndexInternal(fs, ic, Append(dir, Head(names)), m))
  ELSE ScanObject(fs, ic, dir, names, m, ReadObject(fs, Append(dir, Head(names))))

\* the file of the scan, r what ReadObject returns for it
ScanObject(fs, ic, dir, names, m, r) ==
  IF r.err # Nil THEN m
  ELSE ScanEntries(fs, ic, dir, Tail(names),
                   IndexAppend(m, GetValue(r.e, ic.Field),
                               CreateIndexEntry(r.e, ic.Field, ic.Include)))

RebuildIndexInternal(fs, ic, dir, m) ==
  IF dir \notin fs.dirs THEN m ELSE ScanEntries(fs, ic, dir, ReadDir(fs, dir), m)

\* fileIndex.RebuildIndex: the field's new map; what the scan returns is dropped
RebuildIndex(fs, ic) == RebuildIndexInternal(fs, ic, Root, EmptyMap)

\* fileIndex.Init: [idx, fs, err]
RECURSIVE IndexInit(_, _, _)
RECURSIVE InitCreated(_, _, _)
RECURSIVE InitLoaded(_, _, _, _)
IndexInit(cfgs, idx, fs) ==
  IF cfgs = <<>> THEN [idx |-> idx, fs |-> fs, err |-> Nil]
  ELSE IF Exists(fs, IndexPath(Head(cfgs).Field))
  THEN InitLoaded(cfgs, idx, fs, LoadIndex(fs, Head(cfgs), idx[Head(cfgs).Field]))
  ELSE IF Parent(IndexPath(Head(cfgs).Field)) \notin fs.dirs
  THEN [idx |-> idx, fs |-> fs, err |-> ErrNotExist]
  ELSE InitCreated(cfgs, idx, CreateReadOnly(fs, IndexPath(Head(cfgs).Field)))

\* the field's file was absent and fs holds the one that was created: the index
\* is rebuilt, and the lines written through the read-only descriptor are lost
InitCreated(cfgs, idx, fs) ==
  IndexInit(Tail(cfgs), [idx EXCEPT ![Head(cfgs).Field] = RebuildIndex(fs, Head(cfgs))], fs)

\* the branch as it would be were every error of LoadIndex returned
InitLoadedReturning(cfgs, idx, fs, l) ==
  IF l.err = Nil THEN IndexInit(Tail(cfgs), [idx EXCEPT ![Head(cfgs).Field] = l.m], fs)
  ELSE [idx |-> [idx EXCEPT ![Head(cfgs).Field] = l.m], fs |-> fs, err |-> l.err]

\* the field's file was there and l is what LoadIndex returns
InitLoaded(cfgs, idx, fs, l) ==
  IF l.err = Nil THEN IndexInit(Tail(cfgs), [idx EXCEPT ![Head(cfgs).Field] = l.m], fs)
  ELSE IF l.err # ErrInvalidIndex
  THEN [idx |-> [idx EXCEPT ![Head(cfgs).Field] = l.m], fs |-> fs, err |-> l.err]
  ELSE IndexInit(Tail(cfgs), [idx EXCEPT ![Head(cfgs).Field] = RebuildIndex(fs, Head(cfgs))], fs)

(***************************************************************************)
(* The coordinator: fileDB.  An operation's result carries the state it    *)
(* leaves: the ledger st, the index idx, the file system fs, and its error.*)
(***************************************************************************)
\* fileDB.Init once the ledger is initialised (s is what fileStat.Init returns)
\* and once the index is (i is what fileIndex.Init returns)
InitIndexed(s, i) == [st |-> s.st, idx |-> i.idx, fs |-> i.fs, err |-> i.err]

InitStat(cfgs, s) ==
  IF s.err # Nil THEN [st |-> s.st, idx |-> NewFileIndex(cfgs), fs |-> s.fs, err |-> s.err]
  ELSE InitIndexed(s, IndexInit(cfgs, NewFileIndex(cfgs), s.fs))

\* NewFileDB followed by fileDB.Init on the file system fs: [st, idx, fs, err]
DbInit(cfgs, fs) == InitStat(cfgs, StatInit(CreateDir(fs, Root), NewFileStat))

\* fileDB.Find: [e, err, fs]; fs is the file system GetObjectPath leaves
Found(fs, r) == [e |-> r.e, err |-> r.err, fs |-> fs]

FindIn(fs, id) == Found(fs, ReadObject(fs, GetObjectPath(id)))

Find(fs, id) == FindIn(TouchObjectPath(fs, id), id)

\* os.WriteFile(db.GetObjectPath(id), json.Marshal(e), 0644): [fs, err]
WriteObject(fs, e) == WriteFile(TouchObjectPath(fs, e.ID), GetObjectPath(e.ID), Marshal(e))

\* os.Remove(db.GetObjectPath(id)): [fs, err]
RemoveObject(fs, id) == Remove(TouchObjectPath(fs, id), GetObjectPath(id))

\* fileDB.Insert: [st, idx, fs, err, id]; g is what GetNextID returns, i what
\* fileIndex.Insert does, a what AddCount does, w what the write does
InsertWritten(g, i, a, w) == [st |-> a.st, idx |-> i.idx, fs |-> w.fs, err |-> w.err, id |-> g.id]

InsertCounted(g, i, a, e) == InsertWritten(g, i, a, WriteObject(a.fs, e))

\* Insert as it would be were the count incremented whatever the index returns
InsertIndexedCounting(g, i, e) == InsertCounted(g, i, AddCount(i.fs, g.st, 1), e)

InsertIndexed(g, i, e) ==
  IF i.err # Nil THEN [st |-> g.st, idx |-> i.idx, fs |-> i.fs, err |-> i.err, id |-> g.id]
  ELSE InsertCounted(g, i, AddCount(i.fs, g.st, 1), e)

InsertNext(cfgs, idx, g, e0) ==
  InsertIndexed(g, IndexInsert(cfgs, idx, g.fs, SetID(e0, g.id)), SetID(e0, g.id))

DbInsert(cfgs, st, idx, fs, e0) == InsertNext(cfgs, idx, GetNextID(fs, st, FALSE), e0)

\* fileDB.Update: [st, idx, fs, err]; f is what Find returns, i what
\* fileIndex.Update does, w what the write does
UpdateWritten(st, i, w) == [st |-> st, idx |-> i.idx, fs |-> w.fs, err |-> w.err]

UpdateIndexed(st, i, e) ==
  IF i.err # Nil THEN [st |-> st, idx |-> i.idx, fs |-> i.fs, err |-> i.err]
  ELSE UpdateWritten(st, i, WriteObject(i.fs, e))

UpdateFound(cfgs, st, idx, f, e, order) ==
  IF f.err # Nil THEN [st |-> st, idx |-> idx, fs |-> f.fs, err |-> f.err]
  ELSE UpdateIndexed(st, IndexUpdate(cfgs, idx, f.fs, e, f.e, order), e)

DbUpdate(cfgs, st, idx, fs, e, order) == UpdateFound(cfgs, st, idx, Find(fs, e.ID), e, order)

\* fileDB.Delete: [st, idx, fs, err]; f is what Find returns, a what AddCount
\* does, i what fileIndex.Delete does, r what the removal does
DeleteRemoved(a, i, r) == [st |-> a.st, idx |-> i.idx, fs |-> r.fs, err |-> r.err]

DeleteIndexed(a, i, id) ==
  IF i.err # Nil THEN [st |-> a.st, idx |-> i.idx, fs |-> i.fs, err |-> i.err]
  ELSE DeleteRemoved(a, i, RemoveObject(i.fs, id))

DeleteCounted(cfgs, idx, f, a, id, order) ==
  DeleteIndexed(a, IndexDelete(cfgs, idx, a.fs, f.e, order), id)

\* Delete as it would be were the error of Find not looked at
DeleteFoundAny(cfgs, st, idx, f, id, order) ==
  DeleteCounted(cfgs, idx, f, AddCount(f.fs, st, -1), id, order)

DeleteFound(cfgs, st, idx, f, id, order) ==
  IF f.err # Nil THEN [st |-> st, idx |-> idx, fs |-> f.fs, err |-> f.err]
  ELSE DeleteCounted(cfgs, idx, f, AddCount(f.fs, st, -1), id, order)

DbDelete(cfgs, st, idx, fs, id, order) == DeleteFound(cfgs, st, idx, Find(fs, id), id, order)

\* the loop of fileDB.List over the identifiers: [es, err, fs]
RECURSIVE ListLoop(_, _, _)
RECURSIVE ListFound(_, _, _)
ListLoop(fs, ids, es) ==
  IF ids = <<>> THEN [es |-> es, err |-> Nil, fs |-> fs]
  ELSE ListFound(Find(fs, Head(ids)), ids, es)

\* the loop body as it would be were a record that cannot be read skipped
ListFoundSkipping(f, ids, es) ==
  ListLoop(f.fs, Tail(ids), IF f.err # Nil THEN es ELSE Append(es, f.e))

ListFound(f, ids, es) ==
  IF f.err # Nil THEN [es |-> <<>>, err |-> f.err, fs |-> f.fs]
  ELSE ListLoop(f.fs, Tail(ids), Append(es, f.e))

\* fileDB.List: [es, err, fs]
DbList(idx, fs, field, value) == ListLoop(fs, SearchId(idx, field, value), <<>>)

(***************************************************************************)
(* The inputs of the model.                                                *)
(***************************************************************************)
\* the index configuration of TestFileIndexInclude
TestIndexes ==
  << [Unique |-> TRUE, Field |-> NameField, Include |-> <<>>],
     [Unique |-> FALSE, Field |-> AgeField, Include |-> <<NameField>>] >>

Configs == {TestIndexes}

Names == {<<65>>, <<66>>, <<67>>}
Ages == {20, 30}
Entities == [ID : {0}, Name : Names, Age : Ages]

\* the identifier a store starts with: a new root, or a store whose earlier
\* records have all been deleted
StartIDs == {998, 11998}

Fields(cfgs) == {cfgs[i].Field : i \in 1..Len(cfgs)}
KeyUniverse(field) == {GetValue(e, field) : e \in Entities}
Perms(S) == {p \in [1..Cardinality(S) -> S] : \A i, j \in 1..Cardinality(S) : p[i] = p[j] => i = j}

RECURSIVE SomeSeq(_)
SomeSeq(S) == IF S = {} THEN <<>> ELSE LET x == CHOOSE x \in S : TRUE IN <<x>> \o SomeSeq(S \ {x})

\* the orders in which an iteration can visit the keys of the map m: what is
\* read of an iteration is the order of the keys whose buckets hold entries, so
\* the keys of the empty buckets are put last
KeyOrders(m) ==
  LET full == {k \in DOMAIN m : m[k] # <<>>}
  IN {p \o SomeSeq(DOMAIN m \ full) : p \in Perms(full)}

\* an order of iteration for the map of each field
RECURSIVE OrdersOf(_, _)
OrdersOf(idx, fields) ==
  IF fields = {} THEN {[f \in {} |-> <<>>]}
  ELSE LET f == CHOOSE f \in fields : TRUE
       IN {[g \in DOMAIN o \cup {f} |-> IF g = f THEN k ELSE o[g]] :
             o \in OrdersOf(idx, fields \ {f}), k \in KeyOrders(idx[f])}

IterationOrders(idx) == OrdersOf(idx, DOMAIN idx)

\* one of them
AnyOrder(idx) == [f \in DOMAIN idx |-> SomeSeq(DOMAIN idx[f])]

\* the directories GetObjectPath has created for the identifiers below s
ShardDirsOf(id) ==
  LET nums == ShardNums(id \div 1000)
  IN {PathOf(Join(SubSeq(nums, 1, k), Slash)) : k \in 1..Len(nums)}

RECURSIVE EmptyIndexFiles(_, _)
EmptyIndexFiles(cfgs, files) ==
  IF cfgs = <<>> THEN files
  ELSE EmptyIndexFiles(Tail(cfgs), PutFile(files, IndexPath(Head(cfgs).Field), <<>>))

NoFiles == [p \in {} |-> <<>>]

\* the file system the engine is created on
PriorStore(cfgs, s) ==
  IF s = 1 THEN [files |-> NoFiles, dirs |-> {}]
  ELSE [files |-> EmptyIndexFiles(cfgs, PutFile(NoFiles, StatPath, StatText([nextID |-> s, count |-> 0]))),
        dirs |-> {Root} \cup UNION {ShardDirsOf(id) : id \in 1..(s - 1)}]

(***************************************************************************)
(* The ledger that starts from the index: fileStat[T].Init(fi).            *)
(***************************************************************************)
\* count = count + len(entries) over the buckets of a map
RECURSIVE CountEntries(_, _)
CountEntries(m, keys) ==
  IF keys = {} THEN 0
  ELSE LET k == CHOOSE k \in keys : TRUE IN Len(m[k]) + CountEntries(m, keys \ {k})

\* fileIndex.FindMaxIdAndCount: [max, count] of the index of one field, the one
\* the iteration of the map of the indexes visits first; max starts at 0
FindMaxIdAndCount(idx, first) ==
  IF DOMAIN idx = {} THEN [max |-> 0, count |-> 0]
  ELSE LET ids == {0} \cup UNION {{idx[first][v][i].ID : i \in 1..Len(idx[first][v])} :
                                   v \in DOMAIN idx[first]}
       IN [max |-> CHOOSE x \in ids : \A y \in ids : y <= x,
           count |-> CountEntries(idx[first], DOMAIN idx[first])]

\* fileStat[T].Init(fi): [fs, st, err]; without a stat file the pair is taken
\* from the index fi holds, and written through the read-only descriptor
StatInitIndexed(fs, st, idx, first) ==
  IF ~Exists(fs, StatPath)
  THEN IF Parent(StatPath) \notin fs.dirs THEN [fs |-> fs, st |-> st, err |-> ErrNotExist]
       ELSE [fs |-> CreateReadOnly(fs, StatPath),
             st |-> [nextID |-> FindMaxIdAndCount(idx, first).max + 1,
                     count |-> FindMaxIdAndCount(idx, first).count],
             err |-> Nil]
  ELSE [fs |-> fs, st |-> StatLoad(fs, st), err |-> Nil]

\* NewFileDB followed by the Init that passes the index to the ledger: the root,
\* then the ledger, then the index engine
DbInitIndexed(cfgs, fs, first) ==
  InitStat(cfgs, StatInitIndexed(CreateDir(fs, Root), NewFileStat, NewFileIndex(cfgs), first))

(***************************************************************************)
(* The state.                                                              *)
(***************************************************************************)
VARIABLES
  indexConfigs,  \* fileDB.indexes: the configuration the engine was created with
  nextID,        \* fileStat.nextID
  count,         \* fileStat.count
  indexes,       \* fileIndex.indexes: for each field, the buckets that hold entries
  files,         \* the files below the root, each with its bytes
  dirs,          \* the directories below the root
  ret,           \* the last call that changes the store, and the error it returned
  issued,        \* history: the identifiers Insert has assigned, in order
  joinOrder,     \* history: per field and value, the identifiers of the live records
                 \* with that value, in the order in which they came to have it
  peek,          \* history: what the last PeekNextID returned (p) and the Inserts
                 \* since (k), which have all succeeded; NoPeek when there is none
  removed,       \* history: the files removed or damaged from under the engine
  callers        \* the goroutines inside fileDB.Insert at the same time: for each, the
                 \* statement it is at and its local variables

vars ==
  <<indexConfigs, nextID, count, indexes, files, dirs, ret, issued, joinOrder, peek, removed,
    callers>>

FS == [files |-> files, dirs |-> dirs]
ST == [nextID |-> nextID, count |-> count]

NoPeek == [p |-> 0, k |-> 0]

\* the goroutines that call Insert at the same time
Callers == {1, 2}

\* a goroutine that has not called: pc is the statement it is at, e the record it
\* inserts, loaded the value it read for fs.nextID++, i the configuration its
\* second loop is at and index the slice it holds there, err what Insert
\* returned; before is history: the goroutines that had put an entry in the
\* index when it passed the validation loop
IdleCaller ==
  [pc |-> "idle", e |-> ZeroEntity, loaded |-> 0, i |-> 1, index |-> <<>>, err |-> Nil,
   before |-> {}]

\* the buckets of an index that hold entries.  Every function of fileIndex reads
\* a bucket by its length or by ranging over it, so a key left with an empty
\* bucket reads as a key the map does not have
Buckets(idx) == [f \in DOMAIN idx |-> [k \in {v \in DOMAIN idx[f] : idx[f][v] # <<>>} |-> idx[f][k]]]

\* the engine holds what Init left: r is its result
Holds(r) ==
  /\ nextID = r.st.nextID
  /\ count = r.st.count
  /\ indexes = Buckets(r.idx)
  /\ files = r.fs.files
  /\ dirs = r.fs.dirs
  /\ ret = [op |-> "Init", err |-> r.err]

\* the engine created with cfgs, r what its Init returned
Created(cfgs, r) ==
  /\ r.err = Nil
  /\ Holds(r)
  /\ indexConfigs = cfgs
  /\ issued = <<>>
  /\ joinOrder = [f \in Fields(cfgs) |-> [v \in KeyUniverse(f) |-> <<>>]]
  /\ peek = NoPeek
  /\ removed = 0
  /\ callers = [c \in Callers |-> IdleCaller]

\* a new root
Init == \E cfgs \in Configs : Created(cfgs, DbInit(cfgs, PriorStore(cfgs, 1)))

\* a root that has issued identifiers before and holds no record
InitShard ==
  \E cfgs \in Configs, s \in StartIDs : Created(cfgs, DbInit(cfgs, PriorStore(cfgs, s)))

\* the process runs: a panic ends it, and so does the operator who takes it down
Running == ret.err # ErrPanic /\ ret.op # "Down"

Without(seq, id) == SelectSeq(seq, LAMBDA x : x # id)

\* joinOrder once e has every value it did not have as old: it is last there
Joined(jo, e) ==
  [f \in DOMAIN jo |->
     [v \in DOMAIN jo[f] |->
        IF v = GetValue(e, f) /\ e.ID \notin Range(jo[f][v]) THEN Append(jo[f][v], e.ID)
        ELSE jo[f][v]]]

\* joinOrder once old has left every value that new does not have
Left(jo, old, new) ==
  [f \in DOMAIN jo |->
     [v \in DOMAIN jo[f] |->
        IF v = GetValue(old, f) /\ GetValue(new, f) # v
        THEN Without(jo[f][v], old.ID) ELSE jo[f][v]]]

\* joinOrder once the record old is deleted
Gone(jo, old) == [f \in DOMAIN jo |-> [v \in DOMAIN jo[f] |-> Without(jo[f][v], old.ID)]]

\* the identifiers the callers ask for: those assigned so far, and the next one
KnownIDs == Range(issued) \cup {nextID}

\* the record file of id, as the store holds it
Stored(id) == ReadObject(FS, GetObjectPath(id))

(***************************************************************************)
(* The calls.                                                              *)
(***************************************************************************)
\* the engine is left as the result r of the operation op says
Leaves(op, r) ==
  /\ nextID' = r.st.nextID
  /\ count' = r.st.count
  /\ indexes' = Buckets(r.idx)
  /\ files' = r.fs.files
  /\ dirs' = r.fs.dirs
  /\ ret' = [op |-> op, err |-> r.err]

\* db.Insert(e), r what it does
Inserted(e, r) ==
  /\ Leaves("Insert", r)
  /\ issued' = Append(issued, r.id)
  /\ joinOrder' = IF r.err = Nil THEN Joined(joinOrder, SetID(e, r.id)) ELSE joinOrder
  /\ peek' = IF peek # NoPeek /\ r.err = Nil THEN [peek EXCEPT !.k = @ + 1] ELSE NoPeek
  /\ UNCHANGED <<callers, indexConfigs, removed>>

Insert(e) ==
  /\ Running
  /\ Len(issued) < MaxIssue
  /\ count < MaxLive
  /\ Inserted(e, DbInsert(indexConfigs, ST, indexes, FS, e))

\* db.Update(e), prev the record it replaces and r what it does
Updated(e, prev, r) ==
  /\ Leaves("Update", r)
  /\ joinOrder' = IF r.err = Nil THEN Joined(Left(joinOrder, prev.e, e), e) ELSE joinOrder
  /\ UNCHANGED <<callers, indexConfigs, issued, peek, removed>>

Update(e) ==
  /\ Running
  /\ \E order \in IterationOrders(DbUpdate(indexConfigs, ST, indexes, FS, e, AnyOrder(indexes)).idx) :
       Updated(e, Stored(e.ID), DbUpdate(indexConfigs, ST, indexes, FS, e, order))

\* db.Delete(id), prev the record it removes and r what it does
Deleted(prev, r) ==
  /\ Leaves("Delete", r)
  /\ joinOrder' = IF r.err = Nil THEN Gone(joinOrder, prev.e) ELSE joinOrder
  /\ UNCHANGED <<callers, indexConfigs, issued, peek, removed>>

Delete(id) ==
  /\ Running
  /\ \E order \in IterationOrders(DbDelete(indexConfigs, ST, indexes, FS, id, AnyOrder(indexes)).idx) :
       Deleted(Stored(id), DbDelete(indexConfigs, ST, indexes, FS, id, order))

\* a call that reads: what it leaves is the directories GetObjectPath made
Read(r) ==
  /\ files' = r.fs.files
  /\ dirs' = r.fs.dirs
  /\ UNCHANGED <<callers, indexConfigs, nextID, count, indexes, ret, issued, joinOrder, peek, removed>>

\* db.Find(id)
FindCall(id) == Running /\ Read(Find(FS, id))

\* db.List(field, value)
List(field, value) == Running /\ Read(DbList(indexes, FS, field, value))

\* db.ListIndexFields(field, value) returns SearchIndex of the index
ListIndexFields(field, value) ==
  /\ Running
  /\ Len(SearchIndex(indexes, field, value)) >= 0
  /\ UNCHANGED vars

\* db.ListAllIndexFields(field) returns SearchAllIndex of the index, for one of
\* the orders in which the map can be iterated
ListAllIndexFields(field) ==
  /\ Running
  /\ \E order \in KeyOrders(indexes[field]) : Len(SearchAllIndex(indexes, field, order)) >= 0
  /\ UNCHANGED vars

\* db.GetCount() returns the count
GetCount ==
  /\ Running
  /\ count \in Int
  /\ UNCHANGED vars

\* db.PeekNextID(), g what GetNextID(true) returns
Peeked(g) ==
  /\ nextID' = g.st.nextID
  /\ count' = g.st.count
  /\ files' = g.fs.files
  /\ dirs' = g.fs.dirs
  /\ peek' = [p |-> g.id, k |-> 0]
  /\ UNCHANGED <<callers, indexConfigs, indexes, ret, issued, joinOrder, removed>>

PeekNextID == Running /\ Peeked(GetNextID(FS, ST, TRUE))

\* the process ends and a new engine is created and initialised on the same root
Restarted(r) ==
  /\ Leaves("Init", r)
  /\ UNCHANGED <<callers, indexConfigs, issued, joinOrder, peek, removed>>

Restart == Restarted(DbInit(indexConfigs, FS))

\* the process is taken down and the index file of a field is removed from the
\* root
RemoveIndexFile(field) ==
  /\ Running
  /\ removed < MaxRemove
  /\ IndexPath(field) \in DOMAIN files
  /\ files' = Remove(FS, IndexPath(field)).fs.files
  /\ ret' = [op |-> "Down", err |-> Nil]
  /\ removed' = removed + 1
  /\ UNCHANGED <<callers, indexConfigs, nextID, count, indexes, dirs, issued, joinOrder, peek>>

\* a line of one column, which no index file of the configuration has
BadLine == <<88>> \o Newline

\* the process is taken down and the index file of a field is left with a line
\* of the wrong number of columns, before its lines or after them
CorruptIndexFile(field, front) ==
  /\ Running
  /\ removed < MaxRemove
  /\ IndexPath(field) \in DOMAIN files
  /\ files' = PutFile(files, IndexPath(field),
                      IF front THEN BadLine \o files[IndexPath(field)]
                      ELSE files[IndexPath(field)] \o BadLine)
  /\ ret' = [op |-> "Down", err |-> Nil]
  /\ removed' = removed + 1
  /\ UNCHANGED <<callers, indexConfigs, nextID, count, indexes, dirs, issued, joinOrder, peek>>

\* the stat file is removed from the root while the engine runs
RemoveStatFile ==
  /\ Running
  /\ removed < MaxRemove
  /\ StatPath \in DOMAIN files
  /\ files' = Remove(FS, StatPath).fs.files
  /\ removed' = removed + 1
  /\ UNCHANGED <<callers, indexConfigs, nextID, count, indexes, dirs, ret, issued, joinOrder, peek>>

\* the process ends and a new engine, whose ledger starts from the index, is
\* created and initialised on the same root
RestartIndexed ==
  \E first \in Fields(indexConfigs) : Restarted(DbInitIndexed(indexConfigs, FS, first))

\* the record file of id is removed from the root while the engine runs
RemoveRecordFile(id) ==
  /\ Running
  /\ removed < MaxRemove
  /\ GetObjectPath(id) \in DOMAIN files
  /\ files' = Remove(FS, GetObjectPath(id)).fs.files
  /\ removed' = removed + 1
  /\ UNCHANGED <<callers, indexConfigs, nextID, count, indexes, dirs, ret, issued, joinOrder, peek>>

\* a directory is made in the root under the name of the record file of the
\* next identifier, while the engine runs
BlockRecordPath ==
  /\ Running
  /\ removed < MaxRemove
  /\ ~Exists(FS, GetObjectPath(nextID))
  /\ Parent(GetObjectPath(nextID)) \in dirs
  /\ dirs' = dirs \cup {GetObjectPath(nextID)}
  /\ removed' = removed + 1
  /\ UNCHANGED <<callers, indexConfigs, nextID, count, indexes, files, ret, issued, joinOrder, peek>>

\* the process is taken down while it writes the record file of id, which is
\* left without its last byte, and the index file of a field is removed from
\* the root
DamageRecord(id, field) ==
  /\ Running
  /\ removed < MaxRemove
  /\ GetObjectPath(id) \in DOMAIN files
  /\ IndexPath(field) \in DOMAIN files
  /\ files' = PutFile(Remove(FS, IndexPath(field)).fs.files, GetObjectPath(id),
                      SubSeq(files[GetObjectPath(id)], 1, Len(files[GetObjectPath(id)]) - 1))
  /\ ret' = [op |-> "Down", err |-> Nil]
  /\ removed' = removed + 1
  /\ UNCHANGED <<callers, indexConfigs, nextID, count, indexes, dirs, issued, joinOrder, peek>>

\* db.Insert(e) on a store that holds as many records as identifiers are issued
InsertAny(e) ==
  /\ Running
  /\ Len(issued) < MaxIssue
  /\ Inserted(e, DbInsert(indexConfigs, ST, indexes, FS, e))

(***************************************************************************)
(* fileDB.Insert statement by statement, for goroutines that call it at    *)
(* the same time.  Nothing in the package locks: a statement of one        *)
(* goroutine can come between any two statements of another.               *)
(***************************************************************************)
\* the goroutine c moves to the statement pc with the local variables of rec
Moves(c, rec) == callers' = [callers EXCEPT ![c] = rec]

\* the goroutines that have put an entry in the index: their second loop has
\* gone through a configuration
Applied == {c \in Callers : callers[c].i > 1}

\* the goroutine c calls db.Insert(e)
CallInsert(c, e) ==
  /\ Running
  /\ callers[c].pc = "idle"
  /\ Moves(c, [callers[c] EXCEPT !.pc = "read", !.e = e])
  /\ UNCHANGED <<indexConfigs, nextID, count, indexes, files, dirs, ret, issued, joinOrder, peek,
                 removed>>

\* GetNextID(false): id := fs.nextID
ReadNextID(c) ==
  /\ callers[c].pc = "read"
  /\ Moves(c, [callers[c] EXCEPT !.pc = "load", !.e = SetID(@, nextID)])
  /\ UNCHANGED <<indexConfigs, nextID, count, indexes, files, dirs, ret, issued, joinOrder, peek,
                 removed>>

\* GetNextID(false): fs.nextID++ reads the field
LoadNextID(c) ==
  /\ callers[c].pc = "load"
  /\ Moves(c, [callers[c] EXCEPT !.pc = "store", !.loaded = nextID])
  /\ UNCHANGED <<indexConfigs, nextID, count, indexes, files, dirs, ret, issued, joinOrder, peek,
                 removed>>

\* GetNextID(false): fs.nextID++ writes the field
StoreNextID(c) ==
  /\ callers[c].pc = "store"
  /\ nextID' = callers[c].loaded + 1
  /\ Moves(c, [callers[c] EXCEPT !.pc = "save"])
  /\ UNCHANGED <<indexConfigs, count, indexes, files, dirs, ret, issued, joinOrder, peek, removed>>

\* GetNextID(false): fs.Save(), and SetID of the identifier returned
SaveNextID(c) ==
  /\ callers[c].pc = "save"
  /\ files' = StatSave(FS, ST).files
  /\ Moves(c, [callers[c] EXCEPT !.pc = "validate"])
  /\ UNCHANGED <<indexConfigs, nextID, count, indexes, dirs, ret, issued, joinOrder, peek, removed>>

\* fileIndex.Insert: the validation loop, v what it returns
Validated(c, v) ==
  /\ Moves(c, IF v # Nil THEN [callers[c] EXCEPT !.pc = "done", !.err = v, !.before = Applied]
              ELSE [callers[c] EXCEPT !.pc = "apply", !.before = Applied])
  /\ UNCHANGED <<indexConfigs, nextID, count, indexes, files, dirs, ret, issued, joinOrder, peek,
                 removed>>

ValidateInsert(c) ==
  /\ callers[c].pc = "validate"
  /\ Validated(c, InsertValidate(indexConfigs, indexes, callers[c].e))

\* fileIndex.Insert, second loop: index, ok := fi.indexes[field][value] and the
\* append of the entry to the slice
ReadBucket(c) ==
  /\ callers[c].pc = "apply"
  /\ Moves(c, [callers[c] EXCEPT
                 !.pc = "put",
                 !.index = Append(Bucket(indexes[indexConfigs[callers[c].i].Field],
                                         GetValue(callers[c].e, indexConfigs[callers[c].i].Field)),
                                  CreateIndexEntry(callers[c].e, indexConfigs[callers[c].i].Field,
                                                   indexConfigs[callers[c].i].Include))])
  /\ UNCHANGED <<indexConfigs, nextID, count, indexes, files, dirs, ret, issued, joinOrder, peek,
                 removed>>

\* the second loop as it would be were a unique field's bucket looked at again
\* before the entry is put
PutBucketChecked(c, ic) ==
  IF ic.Unique /\ Bucket(indexes[ic.Field], GetValue(callers[c].e, ic.Field)) # <<>>
  THEN /\ Moves(c, [callers[c] EXCEPT !.pc = "done", !.err = ErrUnique(ic.Field)])
       /\ UNCHANGED <<indexConfigs, nextID, count, indexes, files, dirs, ret, issued, joinOrder,
                      peek, removed>>
  ELSE /\ indexes' = [indexes EXCEPT ![ic.Field] = MapPut(@, GetValue(callers[c].e, ic.Field),
                                                          callers[c].index)]
       /\ files' = PutFile(files, IndexPath(ic.Field),
                           files[IndexPath(ic.Field)] \o InsertLine(callers[c].e, ic))
       /\ Moves(c, [callers[c] EXCEPT
                      !.pc = IF callers[c].i = Len(indexConfigs) THEN "count" ELSE "apply",
                      !.i = @ + 1])
       /\ UNCHANGED <<indexConfigs, nextID, count, dirs, ret, issued, joinOrder, peek, removed>>

\* fileIndex.Insert, second loop: fi.indexes[field][value] = index, then the line
\* appended to the field's file, which must exist; ic is the configuration
PutBucketOf(c, ic) ==
  /\ indexes' = [indexes EXCEPT ![ic.Field] = MapPut(@, GetValue(callers[c].e, ic.Field),
                                                     callers[c].index)]
  /\ IF IndexPath(ic.Field) \notin DOMAIN files
     THEN /\ files' = files
          /\ Moves(c, [callers[c] EXCEPT !.pc = "done", !.err = ErrNotExist])
     ELSE /\ files' = PutFile(files, IndexPath(ic.Field),
                              files[IndexPath(ic.Field)] \o InsertLine(callers[c].e, ic))
          /\ Moves(c, [callers[c] EXCEPT
                         !.pc = IF callers[c].i = Len(indexConfigs) THEN "count" ELSE "apply",
                         !.i = @ + 1])
  /\ UNCHANGED <<indexConfigs, nextID, count, dirs, ret, issued, joinOrder, peek, removed>>

PutBucket(c) ==
  /\ callers[c].pc = "put"
  /\ PutBucketOf(c, indexConfigs[callers[c].i])

\* db.stat.AddCount(1), a what it leaves
Counted(c, a) ==
  /\ count' = a.st.count
  /\ files' = a.fs.files
  /\ Moves(c, [callers[c] EXCEPT !.pc = "write"])
  /\ UNCHANGED <<indexConfigs, nextID, indexes, dirs, ret, issued, joinOrder, peek, removed>>

CountInsert(c) ==
  /\ callers[c].pc = "count"
  /\ Counted(c, AddCount(FS, ST, 1))

\* os.WriteFile(db.GetObjectPath(id), bytes, 0644), w what it leaves, and the
\* return of Insert
Written(c, w) ==
  /\ files' = w.fs.files
  /\ dirs' = w.fs.dirs
  /\ Moves(c, [callers[c] EXCEPT !.pc = "done", !.err = w.err])
  /\ UNCHANGED <<indexConfigs, nextID, count, indexes, ret, issued, joinOrder, peek, removed>>

WriteInsert(c) ==
  /\ callers[c].pc = "write"
  /\ Written(c, WriteObject(FS, callers[c].e))

Next ==
  \/ \E e \in Entities : Insert(e)
  \/ \E e \in Entities, id \in Range(issued) : Update(SetID(e, id))
  \/ \E id \in KnownIDs : Delete(id)
  \/ \E id \in KnownIDs : FindCall(id)
  \/ \E f \in Fields(indexConfigs) : \E v \in KeyUniverse(f) : List(f, v)
  \/ \E f \in Fields(indexConfigs) : \E v \in KeyUniverse(f) : ListIndexFields(f, v)
  \/ \E f \in Fields(indexConfigs) : ListAllIndexFields(f)
  \/ GetCount
  \/ Restart

Spec == Init /\ [][Next]_vars

\* the calls on the ledger, with PeekNextID and the history of what it returned
NextPeek ==
  \/ \E e \in Entities : Insert(e)
  \/ \E id \in KnownIDs : Delete(id)
  \/ PeekNextID
  \/ Restart

SpecPeek == Init /\ [][NextPeek]_vars

\* the calls that write, on a root whose identifiers have reached the shard
\* directories
NextShard ==
  \/ \E e \in Entities : Insert(e)
  \/ \E e \in Entities, id \in Range(issued) : Update(SetID(e, id))
  \/ \E id \in KnownIDs : Delete(id)
  \/ \E id \in KnownIDs : FindCall(id)
  \/ Restart

SpecShard == InitShard /\ [][NextShard]_vars

\* the calls that write, until the process is taken down and an index file is
\* removed, and the Init that follows
NextRebuild ==
  \/ \E e \in Entities : removed = 0 /\ Insert(e)
  \/ \E e \in Entities, id \in Range(issued) : removed = 0 /\ Update(SetID(e, id))
  \/ \E id \in KnownIDs : removed = 0 /\ Delete(id)
  \/ \E f \in Fields(indexConfigs) : RemoveIndexFile(f)
  \/ Restart

SpecRebuild == Init /\ [][NextRebuild]_vars

\* the calls of Spec that write and List, on a root from which a record file is
\* removed
NextLost ==
  \/ \E e \in Entities : Insert(e)
  \/ \E e \in Entities, id \in Range(issued) : Update(SetID(e, id))
  \/ \E id \in KnownIDs : Delete(id)
  \/ \E f \in Fields(indexConfigs) : \E v \in KeyUniverse(f) : List(f, v)
  \/ \E id \in Range(issued) : RemoveRecordFile(id)
  \/ Restart

SpecLost == Init /\ [][NextLost]_vars

\* the calls that write, until the process is taken down and an index file is
\* damaged, and the Init that follows
NextCorrupt ==
  \/ \E e \in Entities : removed = 0 /\ Insert(e)
  \/ \E e \in Entities, id \in Range(issued) : removed = 0 /\ Update(SetID(e, id))
  \/ \E id \in KnownIDs : removed = 0 /\ Delete(id)
  \/ \E f \in Fields(indexConfigs) : \E front \in BOOLEAN : CorruptIndexFile(f, front)
  \/ Restart

SpecCorrupt == Init /\ [][NextCorrupt]_vars

\* Insert and Delete on a root from which the stat file is removed, with the
\* engine whose ledger starts from the index (on a new root its Init leaves what
\* Init leaves)
NextBootstrap ==
  \/ \E e \in Entities : Insert(e)
  \/ \E id \in KnownIDs : Delete(id)
  \/ RemoveStatFile
  \/ RestartIndexed

SpecBootstrap == Init /\ [][NextBootstrap]_vars

\* Insert and Delete on a root where a directory takes the place of a record
\* file, so that the write of the record fails
NextBlocked ==
  \/ \E e \in Entities : Insert(e)
  \/ \E id \in KnownIDs : Delete(id)
  \/ BlockRecordPath
  \/ Restart

SpecBlocked == Init /\ [][NextBlocked]_vars

\* two goroutines that each call Insert once on a new root, at the same time
NextConcurrent ==
  \/ \E c \in Callers, e \in Entities : CallInsert(c, e)
  \/ \E c \in Callers : ReadNextID(c)
  \/ \E c \in Callers : LoadNextID(c)
  \/ \E c \in Callers : StoreNextID(c)
  \/ \E c \in Callers : SaveNextID(c)
  \/ \E c \in Callers : ValidateInsert(c)
  \/ \E c \in Callers : ReadBucket(c)
  \/ \E c \in Callers : PutBucket(c)
  \/ \E c \in Callers : CountInsert(c)
  \/ \E c \in Callers : WriteInsert(c)

SpecConcurrent == Init /\ [][NextConcurrent]_vars

\* the calls that write, until the process is taken down with a record file cut
\* short and an index file removed, and the Init that follows
NextDamaged ==
  \/ \E e \in Entities : removed = 0 /\ Insert(e)
  \/ \E id \in KnownIDs : removed = 0 /\ Delete(id)
  \/ \E id \in Range(issued), f \in Fields(indexConfigs) : DamageRecord(id, f)
  \/ Restart

SpecDamaged == Init /\ [][NextDamaged]_vars

\* the calls that write, an index file removed and the Init that follows, on a
\* root whose identifiers have reached the shard directories
SpecShardRebuild == InitShard /\ [][NextRebuild]_vars

\* Insert and Update on a store where three records can share a bucket
NextOrder ==
  \/ \E e \in Entities : InsertAny(e)
  \/ \E e \in Entities, id \in Range(issued) : Update(SetID(e, id))

SpecOrder == Init /\ [][NextOrder]_vars

(***************************************************************************)
(* What the properties below read of a state.                              *)
(***************************************************************************)
Last(seq) == seq[Len(seq)]

\* the file system of the next state
NextFS == [files |-> files', dirs |-> dirs']

\* the files of the root other than the ledger's and the indexes'
RecordFiles == DOMAIN files \ ({StatPath} \cup {IndexPath(f) : f \in Fields(indexConfigs)})

\* the records the record files decode to
Records == {Unmarshal(files[p]).e : p \in {q \in RecordFiles : Unmarshal(files[q]).err = Nil}}

\* the files but the one at path
FilesBut(fl, path) == [p \in DOMAIN fl \ {path} |-> fl[p]]

\* the unique fields on which an entry already has the value e has
Taken(e) ==
  {indexConfigs[i].Field : i \in {j \in 1..Len(indexConfigs) :
      indexConfigs[j].Unique
      /\ SearchIndex(indexes, indexConfigs[j].Field, GetValue(e, indexConfigs[j].Field)) # <<>>}}

\* the identifiers of a bucket
IDsOf(entries) == {entries[i].ID : i \in 1..Len(entries)}

\* an index as the sets of identifiers under each value
Mapping(m) == [v \in {k \in DOMAIN m : m[k] # <<>>} |-> IDsOf(m[v])]

\* the same, derived from the record files alone
Derived(field) ==
  [v \in {GetValue(e, field) : e \in Records} |->
     {e.ID : e \in {x \in Records : GetValue(x, field) = v}}]

\* the places <<value, position>> of the entries of the map m that hold id
PlacesOf(m, id) ==
  UNION {{<<v, i>> : i \in {j \in 1..Len(m[v]) : m[v][j].ID = id}} : v \in DOMAIN m}

\* the identifiers of the entries of the map m
AllIDs(m) == UNION {IDsOf(m[v]) : v \in DOMAIN m}

\* the unique fields on which the record id keeps its value when e replaces it
KeptUnique(e, id) ==
  {indexConfigs[i].Field : i \in {j \in 1..Len(indexConfigs) :
      indexConfigs[j].Unique
      /\ GetValue(e, indexConfigs[j].Field) = GetValue(Stored(id).e, indexConfigs[j].Field)}}

\* the unique fields on which e changes the value of the record id to a value
\* that another record file has
MovedOntoOther(e, id) ==
  {indexConfigs[i].Field : i \in {j \in 1..Len(indexConfigs) :
      /\ indexConfigs[j].Unique
      /\ GetValue(e, indexConfigs[j].Field) # GetValue(Stored(id).e, indexConfigs[j].Field)
      /\ \E x \in Records :
           x.ID # id /\ GetValue(x, indexConfigs[j].Field) = GetValue(e, indexConfigs[j].Field)}}

\* the text of a stat file holds the pair st: a number, a line end, a number
HoldsPair(text, st) ==
  /\ ScanInt(text).ok
  /\ ScanInt(text).val = st.nextID
  /\ ScanInt(text).rest # <<>>
  /\ <<Head(ScanInt(text).rest)>> = Newline
  /\ ScanInt(Tail(ScanInt(text).rest)).ok
  /\ ScanInt(Tail(ScanInt(text).rest)).val = st.count

\* the largest identifier of the records, 0 without records
MaxRecordID ==
  CHOOSE x \in {0} \cup {e.ID : e \in Records} : \A y \in {0} \cup {e.ID : e \in Records} : y <= x

\* the path <root>/<shard dirs>/<id>.dat: the directories named by the non-zero
\* digits of id / 1000, least significant first, then the file named by id
NamedPath(id) == ShardNums(id \div 1000) \o <<Itoa(id) \o DotDat>>

\* every index of the next state has, under the value of e, the bucket of this
\* state with the entry of e appended, and the other buckets as they are
EntriesAppended(e) ==
  \A i \in 1..Len(indexConfigs) :
    LET f == indexConfigs[i].Field
    IN indexes'[f] =
         MapPut(indexes[f], GetValue(e, f),
                Append(Bucket(indexes[f], GetValue(e, f)),
                       CreateIndexEntry(e, f, indexConfigs[i].Include)))

\* the goroutines c and d have returned from Inserts of the same name, and each
\* passed the validation loop before either had put an entry in the index
BothPassed(c, d) ==
  /\ c # d
  /\ callers[c].pc = "done" /\ callers[d].pc = "done"
  /\ callers[c].e.Name = callers[d].e.Name
  /\ callers[c].before = {} /\ callers[d].before = {}

\* the lines of the index file of a field that have the value in their first
\* column
LinesOf(field, value) ==
  SelectSeq(ScanLines(files[IndexPath(field)]), LAMBDA l : Split(l, Tab[1])[1] = value)

\* the entries of the map m, all buckets together
EntryCount(m) == CountEntries(m, DOMAIN m)

\* the paths GetObjectPath gives the identifiers of a set
PathsOf(ids) == {GetObjectPath(id) : id \in ids}

\* identifiers whose paths are compared: below 1000, around the thousands where
\* the shard digits change, and with zero digits in id / 1000
ProbeIDs ==
  {1, 9, 10, 11, 99, 100, 110, 111, 999, 1000, 1001, 1010, 1100, 1110, 1999, 2000, 9999,
   10000, 10001, 11000, 11001, 11110, 20000, 100000, 101000, 110000, 111000, 1000000}

(***************************************************************************)
(* The properties.                                                         *)
(***************************************************************************)
\* C1: the identifiers Insert assigns, failed Inserts and restarts included, are
\* strictly increasing, and each is smaller than the next identifier of every
\* later ledger state, the one in memory and the one the stat file holds.
C1_IdentifiersIncrease ==
  /\ \A i, j \in 1..Len(issued) : i < j => issued[i] < issued[j]
  /\ \A i \in 1..Len(issued) :
       issued[i] < nextID /\ issued[i] < StatLoad(FS, NewFileStat).nextID

\* more identifiers have been assigned than records are left, and the engine has
\* been initialised again since
C1_Witness ==
  /\ ret = [op |-> "Init", err |-> Nil]
  /\ Len(issued) >= 2
  /\ count = 1

\* C2: an Insert of a record whose value on a unique field is that of an entry
\* fails with the unique-violation error and leaves the count, the indexes in
\* memory, every file but the stat file and the directories as they were; the
\* next identifier is one larger, in memory and in the stat file.
C2_UniqueViolationLeavesStore ==
  [][\A e \in Entities :
       (ret'.op = "Insert" /\ Taken(e) # {} /\ Insert(e)) =>
         /\ ret'.err \in {ErrUnique(f) : f \in Taken(e)}
         /\ count' = count
         /\ indexes' = indexes
         /\ FilesBut(files', StatPath) = FilesBut(files, StatPath)
         /\ dirs' = dirs
         /\ nextID' = nextID + 1
         /\ StatLoad(NextFS, NewFileStat) = [nextID |-> nextID + 1, count |-> count]]_vars

\* an Insert has failed on the unique field while a record is live
C2_Witness ==
  /\ ret = [op |-> "Insert", err |-> ErrUnique(NameField)]
  /\ count >= 1
  /\ nextID = Last(issued) + 1

\* C3: after an Insert that succeeds, Find on the identifier it assigned returns
\* the record that was inserted with that identifier set, for identifiers below
\* 1000 and for those that use shard directories.
C3_InsertThenFind ==
  [][\A e \in Entities :
       (ret' = [op |-> "Insert", err |-> Nil] /\ Insert(e)) =>
         /\ Find(NextFS, Last(issued')).err = Nil
         /\ Find(NextFS, Last(issued')).e = SetID(e, Last(issued'))]_vars

\* an Insert has succeeded with an identifier whose path goes through two shard
\* directories
C3_Witness ==
  /\ ret = [op |-> "Insert", err |-> Nil]
  /\ Last(issued) >= 12000
  /\ Find(FS, Last(issued)).err = Nil

\* C4: the count is the number of record files, every field's
\* ListAllIndexFields has as many entries, and the count is not negative.
C4_CountConsistent ==
  /\ count = Cardinality(RecordFiles)
  /\ count >= 0
  /\ \A f \in Fields(indexConfigs) : \A order \in KeyOrders(indexes[f]) :
       Len(SearchAllIndex(indexes, f, order)) = count

\* a Delete has succeeded and left a record, after an Insert that failed
C4_Witness ==
  /\ ret = [op |-> "Delete", err |-> Nil]
  /\ count = 1
  /\ Len(issued) = 3

\* C5: when Init runs on a root from which a field's index file was removed,
\* the index it obtains for the field has, under each value, the identifiers of
\* the record files with that value, each once, and nothing else.
C5_RebuildFromRecords ==
  [][\A f \in Fields(indexConfigs) :
       (ret.op = "Down" /\ IndexPath(f) \notin DOMAIN files /\ Restart) =>
         /\ Mapping(indexes'[f]) = Derived(f)
         /\ \A v \in DOMAIN indexes'[f] :
              Len(indexes'[f][v]) = Cardinality(IDsOf(indexes'[f][v]))]_vars

\* Init has rebuilt the index of the field whose file was removed from a root
\* that holds two records with the same value for it
C5_Witness ==
  /\ ret = [op |-> "Init", err |-> Nil]
  /\ removed = 1
  /\ \E v \in DOMAIN indexes[AgeField] :
       Len(indexes[AgeField][v]) = 2 /\ files[IndexPath(AgeField)] = <<>>

\* C6: an Update that keeps a record's value on an indexed field keeps the
\* record's entry where it is in its bucket, gives it the include columns of the
\* new version, and leaves the other entries of the bucket as they are.  (The
\* new version is the one the record file holds once the Update has succeeded.)
C6_UpdateKeepsPosition ==
  [][\A e \in Entities, id \in Range(issued) :
       (/\ ret' = [op |-> "Update", err |-> Nil]
        /\ ReadObject(NextFS, GetObjectPath(id)).e = SetID(e, id)
        /\ Update(SetID(e, id))) =>
         \A i \in 1..Len(indexConfigs) :
           LET ic == indexConfigs[i]
               old == SearchIndex(indexes, ic.Field, GetValue(e, ic.Field))
               new == SearchIndex(indexes', ic.Field, GetValue(e, ic.Field))
           IN GetValue(Stored(id).e, ic.Field) = GetValue(e, ic.Field) =>
                /\ Len(new) = Len(old)
                /\ \A j \in 1..Len(old) :
                     IF old[j].ID = id
                     THEN new[j] = [old[j] EXCEPT !.Others = GetFields(e, ic.Include)]
                     ELSE new[j] = old[j]]_vars

\* an Update has succeeded on a store where two records share an Age bucket in
\* the order of their Inserts; the first entry shows the name its record has
\* now, and so does the Age index file
C6_Witness ==
  /\ ret = [op |-> "Update", err |-> Nil]
  /\ Len(issued) = 2
  /\ \E v \in DOMAIN indexes[AgeField] :
       /\ Len(indexes[AgeField][v]) = 2
       /\ indexes[AgeField][v][1].ID = issued[1]
       /\ indexes[AgeField][v][2].ID = issued[2]
       /\ indexes[AgeField][v][1].Others[NameField] = Stored(issued[1]).e.Name
       /\ LoadIndex(FS, indexConfigs[2], EmptyMap).m = indexes[AgeField]

\* C7: a Delete leaves the next identifier as it is, and when every record has
\* been deleted an Init on the same root gives a ledger whose PeekNextID returns
\* what it returned before.
C7_DeleteKeepsNextID ==
  [][/\ \A id \in KnownIDs : (ret'.op = "Delete" /\ Delete(id)) => nextID' = nextID
     /\ (ret'.op = "Init" /\ issued # <<>> /\ count = 0 /\ Restart) =>
          GetNextID(NextFS, [nextID |-> nextID', count |-> count'], TRUE).id
            = GetNextID(FS, ST, TRUE).id]_vars

\* the engine has been initialised again on a root whose records have all been
\* deleted
C7_Witness ==
  /\ ret = [op |-> "Init", err |-> Nil]
  /\ Len(issued) >= 2
  /\ count = 0
  /\ RecordFiles = {}
  /\ nextID = Last(issued) + 1

\* C8: List(field, value) returns, without error, the records whose files have
\* that value for the field, in the order in which they came to have it.
C8_ListInJoinOrder ==
  \A f \in Fields(indexConfigs) : \A v \in KeyUniverse(f) :
    /\ DbList(indexes, FS, f, v).err = Nil
    /\ DbList(indexes, FS, f, v).es = [i \in 1..Len(joinOrder[f][v]) |-> Stored(joinOrder[f][v][i]).e]
    /\ Range(joinOrder[f][v]) = {e.ID : e \in {x \in Records : GetValue(x, f) = v}}
    /\ Len(joinOrder[f][v]) = Cardinality(Range(joinOrder[f][v]))

\* two records have the same Age, and the one inserted first came to have it
\* last; another Age has no record
C8_Witness ==
  \E v, w \in KeyUniverse(AgeField) :
    /\ Len(joinOrder[AgeField][v]) = 2
    /\ joinOrder[AgeField][v][1] > joinOrder[AgeField][v][2]
    /\ DbList(indexes, FS, AgeField, w).es = <<>>

\* C9: PeekNextID leaves the ledger as it is, in memory and in the stat file, and
\* when it has returned p and k Inserts have succeeded since, with none that
\* failed, the next Insert that succeeds assigns p + k.
C9_PeekPredicts ==
  [][/\ PeekNextID =>
          /\ nextID' = nextID /\ count' = count
          /\ files' = files /\ dirs' = dirs
          /\ peek'.p = nextID
     /\ \A e \in Entities :
          (ret' = [op |-> "Insert", err |-> Nil] /\ peek # NoPeek /\ Insert(e)) =>
            Last(issued') = peek.p + peek.k]_vars

\* two Inserts have succeeded since a PeekNextID
C9_Witness ==
  /\ ret = [op |-> "Insert", err |-> Nil]
  /\ peek # NoPeek
  /\ peek.k = 2
  /\ Last(issued) = peek.p + 1

\* C10: every bucket of a unique field holds at most one entry.
C10_UniqueBuckets ==
  \A i \in 1..Len(indexConfigs) :
    indexConfigs[i].Unique =>
      \A v \in DOMAIN indexes[indexConfigs[i].Field] :
        Len(indexes[indexConfigs[i].Field][v]) <= 1

\* an Update to the name of another live record has been refused
C10_Witness ==
  /\ ret = [op |-> "Update", err |-> ErrUnique(NameField)]
  /\ count = 2
  /\ \A v \in DOMAIN indexes[NameField] : Len(indexes[NameField][v]) = 1

\* C11: for every configured field, each record file has exactly one entry, in
\* the bucket of the value the record has for the field, and every entry's
\* identifier has a record file; so the indexes of all the fields hold the same
\* identifiers.
C11_OneEntryPerRecord ==
  /\ \A f \in Fields(indexConfigs) :
       /\ \A e \in Records :
            PlacesOf(indexes[f], e.ID) \subseteq {<<GetValue(e, f), i>> : i \in 1..MaxLive}
            /\ Cardinality(PlacesOf(indexes[f], e.ID)) = 1
       /\ \A v \in DOMAIN indexes[f] : \A i \in 1..Len(indexes[f][v]) :
            /\ indexes[f][v][i].Value = v
            /\ GetObjectPath(indexes[f][v][i].ID) \in RecordFiles
            /\ Stored(indexes[f][v][i].ID).e.ID = indexes[f][v][i].ID
  /\ \A f, g \in Fields(indexConfigs) : AllIDs(indexes[f]) = AllIDs(indexes[g])
  /\ Cardinality(Records) = Cardinality(RecordFiles)

\* an Update has succeeded that moved the record inserted first to the Age
\* bucket of the second, after a third record was inserted and deleted
C11_Witness ==
  /\ ret = [op |-> "Update", err |-> Nil]
  /\ Len(issued) = 3
  /\ count = 2
  /\ \E v \in KeyUniverse(AgeField) :
       Len(joinOrder[AgeField][v]) = 2 /\ joinOrder[AgeField][v][1] > joinOrder[AgeField][v][2]

\* the step is refused with the unique violation of one of the fields and leaves
\* the indexes, the ledger, the files and the directories as they were
RefusedUnchanged(fields) ==
  /\ indexes' = indexes
  /\ nextID' = nextID /\ count' = count
  /\ files' = files /\ dirs' = dirs
  /\ ret'.err \in {ErrUnique(f) : f \in fields}

\* C12: an Update of a live record never fails with the unique violation of a
\* field whose value it keeps, and an Update that changes a unique field to the
\* value of another live record fails with that field's unique violation and
\* leaves the indexes, the ledger, the files and the directories as they were.
\* (A step that is Update(e) leaves in the record file e's bytes or the bytes it
\* held, and the other record files as they were.)
C12_UpdateChecksChangedFields ==
  [][\/ UNCHANGED vars
     \/ ret'.op # "Update"
     \/ \A id \in Range(issued) :
          LET path == GetObjectPath(id)
          IN \/ path \notin DOMAIN files \cap DOMAIN files'
             \/ Stored(id).err # Nil
             \/ \A e \in Entities :
                  /\ ~(/\ ret'.err.kind = ErrUnique(NameField).kind
                       /\ ret'.err.field \in KeptUnique(e, id)
                       /\ Update(SetID(e, id)))
                  /\ \/ RefusedUnchanged(MovedOntoOther(e, id))
                     \/ ~(/\ files'[path] \in {Marshal(SetID(e, id)), files[path]}
                          /\ \A p \in RecordFiles \ {path} : p \in DOMAIN files' /\ files'[p] = files[p]
                          /\ MovedOntoOther(e, id) # {}
                          /\ Update(SetID(e, id)))]_vars

\* an Update to the name of the other live record has been refused, after an
\* Update that kept the name of its record and moved it to the other's Age
C12_Witness ==
  /\ ret = [op |-> "Update", err |-> ErrUnique(NameField)]
  /\ Len(issued) = 2
  /\ count = 2
  /\ \E v \in KeyUniverse(AgeField) : joinOrder[AgeField][v] = <<issued[2], issued[1]>>

\* C13: a Delete of an identifier that has no record file, one never assigned or
\* one already deleted, fails with the not-found error and leaves the count, the
\* next identifier, the indexes and every file as they were; a Delete that
\* succeeds takes one from the count and removes the record file, so a second
\* Delete of the identifier is one of the first kind.
C13_DeleteMissing ==
  [][\/ UNCHANGED vars
     \/ ret'.op # "Delete"
     \/ \A id \in KnownIDs :
          /\ (GetObjectPath(id) \notin DOMAIN files /\ Delete(id)) =>
               /\ ret'.err = ErrNotExist
               /\ count' = count /\ nextID' = nextID
               /\ indexes' = indexes
               /\ files' = files
          /\ (GetObjectPath(id) \in DOMAIN files /\ ret'.err = Nil /\ Delete(id)) =>
               /\ count' = count - 1
               /\ GetObjectPath(id) \notin DOMAIN files']_vars

\* a Delete has failed with the not-found error on a store that holds a record
\* and has deleted another; the identifier 1000 has been asked for
C13_Witness ==
  /\ ret = [op |-> "Delete", err |-> ErrNotExist]
  /\ count = 1
  /\ Len(issued) = 2
  /\ <<Itoa(1)>> \in dirs

\* C14: when a bucket holds an identifier whose record file is missing, List of
\* the bucket's field and value returns an error and no record.
C14_ListFailsOnMissing ==
  \A f \in Fields(indexConfigs) : \A v \in KeyUniverse(f) :
    (\E id \in Range(SearchId(indexes, f, v)) : GetObjectPath(id) \notin DOMAIN files) =>
      /\ DbList(indexes, FS, f, v).err = ErrNotExist
      /\ DbList(indexes, FS, f, v).es = <<>>

\* an Age bucket holds two identifiers: the record file of the first is there and
\* the one of the second is missing
C14_Witness ==
  \E v \in KeyUniverse(AgeField) :
    /\ Len(SearchId(indexes, AgeField, v)) = 2
    /\ Stored(SearchId(indexes, AgeField, v)[1]).err = Nil
    /\ GetObjectPath(SearchId(indexes, AgeField, v)[2]) \notin DOMAIN files
    /\ DbList(indexes, FS, AgeField, v).err # Nil

\* C15: once Init has returned, and after every call since (each GetNextID(false)
\* and each AddCount of Insert and Delete has returned), the stat file holds the
\* pair of the next identifier and the count that the ledger has in memory.
C15_StatFileHoldsPair ==
  /\ StatPath \in DOMAIN files
  /\ HoldsPair(files[StatPath], ST)

\* C16: when Init finds the index file of a field with a line whose number of
\* columns is not 2 plus the number of include fields, it returns no error and
\* the field's index has, under each value, the identifiers of the record files
\* with that value, each once, and nothing of what was loaded before the line.
C16_InvalidFileRebuilt ==
  [][\A i \in 1..Len(indexConfigs) :
       (/\ ret.op = "Down"
        /\ LoadIndex(FS, indexConfigs[i], EmptyMap).err = ErrInvalidIndex
        /\ Restart) =>
         /\ ret' = [op |-> "Init", err |-> Nil]
         /\ Mapping(indexes'[indexConfigs[i].Field]) = Derived(indexConfigs[i].Field)
         /\ \A v \in DOMAIN indexes'[indexConfigs[i].Field] :
              /\ Len(indexes'[indexConfigs[i].Field][v])
                   = Cardinality(IDsOf(indexes'[indexConfigs[i].Field][v]))
              /\ \A j \in 1..Len(indexes'[indexConfigs[i].Field][v]) :
                   indexes'[indexConfigs[i].Field][v][j]
                     = CreateIndexEntry(Stored(indexes'[indexConfigs[i].Field][v][j].ID).e,
                                        indexConfigs[i].Field, indexConfigs[i].Include)]_vars

\* Init has succeeded on a root whose Age index file ends in a line of one
\* column, after the lines of two records with the same Age
C16_Witness ==
  /\ ret = [op |-> "Init", err |-> Nil]
  /\ removed = 1
  /\ LoadIndex(FS, indexConfigs[2], EmptyMap).err = ErrInvalidIndex
  /\ \E v \in DOMAIN LoadIndex(FS, indexConfigs[2], EmptyMap).m :
       Len(LoadIndex(FS, indexConfigs[2], EmptyMap).m[v]) = 2 /\ Len(indexes[AgeField][v]) = 2

\* C17: an Insert or a Delete in which saving the stat file fails, because the
\* file is not there to be opened, returns an error.
C17_FailuresReturned ==
  [][/\ \A e \in Entities :
          (StatPath \notin DOMAIN files /\ ret'.op = "Insert" /\ Insert(e)) => ret'.err # Nil
     /\ \A id \in KnownIDs :
          (/\ StatPath \notin DOMAIN files
           /\ GetObjectPath(id) \in DOMAIN files
           /\ ret'.op = "Delete"
           /\ Delete(id)) => ret'.err # Nil]_vars

\* C18: the record file of every record is <root>/<shard dirs>/<id>.dat: its
\* name is the decimal identifier followed by .dat and it lies in the nested
\* directories of the non-zero digits of id / 1000, in the root when id < 1000.
C18_RecordPath ==
  \A id \in Range(issued) :
    Stored(id).err = Nil => GetObjectPath(id) = NamedPath(id)

\* C19: after an Init and after every Insert, Update or Delete that succeeds,
\* the index file of each field loads to the index the engine has in memory for
\* the field: the same entries under the same values in the same order.
C19_IndexFileMirrors ==
  (ret.op # "Down" /\ ret.err = Nil) =>
    \A i \in 1..Len(indexConfigs) :
      LoadIndex(FS, indexConfigs[i], EmptyMap)
        = [m |-> indexes[indexConfigs[i].Field], err |-> Nil]

\* C20: an Init on a root that holds record files and index files but no stat
\* file leaves the next identifier at the largest identifier of the records plus
\* one and the count at the number of the records, in memory and in the stat
\* file.
C20_LedgerFromRecords ==
  [][(/\ StatPath \notin DOMAIN files
      /\ Records # {}
      /\ ret'.op = "Init"
      /\ RestartIndexed) =>
        /\ nextID' = MaxRecordID + 1
        /\ count' = Cardinality(RecordFiles)
        /\ StatPath \in DOMAIN files'
        /\ HoldsPair(files'[StatPath], [nextID |-> nextID', count |-> count'])]_vars


\* C21: Insert allocates the identifier, then validates and inserts the index
\* entries, then increments the count, then writes the record file, and returns
\* at the step that returns an error with what the earlier steps did left in
\* place: a unique violation leaves the identifier spent and the index, the count
\* and the record files as they were; a record file that cannot be written
\* leaves the identifier spent, the entries in every index and the count
\* incremented, and no record file; an Insert that returns nil has done all four.
C21_InsertStepsInOrder ==
  [][\/ UNCHANGED vars
     \/ ret'.op # "Insert"
     \/ \A e \in Entities :
          Insert(e) =>
            /\ nextID' = nextID + 1
            /\ Last(issued') = nextID
            /\ IF Taken(e) # {}
               THEN /\ ret'.err.kind = ErrUnique(NameField).kind
                    /\ ret'.err.field \in Taken(e)
                    /\ indexes' = indexes
                    /\ count' = count
                    /\ FilesBut(files', StatPath) = FilesBut(files, StatPath)
               ELSE /\ EntriesAppended(SetID(e, nextID))
                    /\ count' = count + 1
                    /\ HoldsPair(files'[StatPath], [nextID |-> nextID', count |-> count'])
                    /\ IF GetObjectPath(nextID) \in dirs
                       THEN /\ ret'.err = ErrIsDir
                            /\ GetObjectPath(nextID) \notin DOMAIN files'
                       ELSE /\ ret'.err = Nil
                            /\ files'[GetObjectPath(nextID)] = Marshal(SetID(e, nextID))]_vars

\* an Insert whose record file could not be written has returned the error, with
\* the count at two and the entry of the record in the index of each field
C21_Witness ==
  /\ ret = [op |-> "Insert", err |-> ErrIsDir]
  /\ count = 2
  /\ Len(issued) = 2
  /\ GetObjectPath(issued[2]) \in dirs
  /\ \A f \in Fields(indexConfigs) : issued[2] \in AllIDs(indexes[f])

\* C22: when two goroutines call Insert at the same time with the same value of
\* the unique field Name and both pass the validation loop before either has put
\* its entry in the index, neither returns a unique violation: both Inserts
\* return nil, the file of the unique field has a line of each under the one
\* value, and the bucket of the value holds entries of theirs only.
C22_BothInsertsSucceed ==
  \A c, d \in Callers :
    BothPassed(c, d) =>
      /\ callers[c].err = Nil /\ callers[d].err = Nil
      /\ Len(LinesOf(NameField, callers[c].e.Name)) = 2
      /\ indexes[NameField][callers[c].e.Name] # <<>>
      /\ IDsOf(indexes[NameField][callers[c].e.Name]) \subseteq {callers[c].e.ID, callers[d].e.ID}

\* both have returned nil and the bucket of the name, in the unique index, holds
\* the two entries, with two identifiers
C22_Witness ==
  /\ BothPassed(1, 2)
  /\ callers[1].err = Nil /\ callers[2].err = Nil
  /\ callers[1].e.ID # callers[2].e.ID
  /\ Len(indexes[NameField][callers[1].e.Name]) = 2
  /\ IDsOf(indexes[NameField][callers[1].e.Name]) = {callers[1].e.ID, callers[2].e.ID}

\* C23: when two goroutines have both returned from GetNextID(false) on a ledger
\* whose next identifier was 1, they hold two different identifiers and the next
\* identifier is 3.
C23_NextIDAtomic ==
  (\A c \in Callers : callers[c].pc \notin {"idle", "read", "load", "store", "save"}) =>
    /\ callers[1].e.ID # callers[2].e.ID
    /\ nextID = 3

\* C24: an Init that rebuilds the index of a field on a root where a record file
\* does not decode returns an error.
C24_RebuildFailsOnBadRecord ==
  [][\A f \in Fields(indexConfigs) :
       (/\ ret.op = "Down"
        /\ IndexPath(f) \notin DOMAIN files
        /\ \E p \in RecordFiles : Unmarshal(files[p]).err # Nil
        /\ Restart) => ret'.err # Nil]_vars

\* C25: an Update that succeeds and changes the value of a record on an indexed
\* field leaves the bucket of the old value as it was without the entry that has
\* the record's identifier, the others in their order, and leaves the bucket of
\* the new value as it was with the entry of the new version appended.
C25_UpdateMovesToEnd ==
  [][\/ UNCHANGED vars
     \/ ret' # [op |-> "Update", err |-> Nil]
     \/ \A id \in Range(issued) :
          LET path == GetObjectPath(id)
          IN \/ path \notin DOMAIN files \cap DOMAIN files'
             \/ Stored(id).err # Nil
             \/ \A e \in Entities :
                  (files'[path] = Marshal(SetID(e, id)) /\ Update(SetID(e, id))) =>
                    \A i \in 1..Len(indexConfigs) :
                      LET f == indexConfigs[i].Field
                          old == GetValue(Stored(id).e, f)
                          new == GetValue(e, f)
                      IN old # new =>
                           /\ id \in IDsOf(Bucket(indexes[f], old))
                           /\ Bucket(indexes'[f], old)
                                = SelectSeq(Bucket(indexes[f], old), LAMBDA x : x.ID # id)
                           /\ Bucket(indexes'[f], new)
                                = Append(Bucket(indexes[f], new),
                                         CreateIndexEntry(SetID(e, id), f,
                                                          indexConfigs[i].Include))]_vars

\* an Update has moved the first record to the Age bucket that held the third:
\* its entry is after the third's, and the second is alone in the bucket it left
C25_Witness ==
  /\ ret = [op |-> "Update", err |-> Nil]
  /\ Len(issued) = 3
  /\ count = 3
  /\ \E v, w \in DOMAIN indexes[AgeField] :
       /\ SearchId(indexes, AgeField, v) = <<issued[3], issued[1]>>
       /\ SearchId(indexes, AgeField, w) = <<issued[2]>>

\* C26: when Init rebuilds the index of a field whose file was removed, on a root
\* that holds the stat file, the index files (the one Init has just created
\* among them), record files and shard directories, the index has one entry for
\* each record file, in the root or below it, made of the record the file holds,
\* and no other entry.
C26_OnlyRecordsIndexed ==
  [][\A i \in 1..Len(indexConfigs) :
       (/\ ret.op = "Down"
        /\ IndexPath(indexConfigs[i].Field) \notin DOMAIN files
        /\ Restart) =>
         /\ ret'.err = Nil
         /\ {StatPath} \cup {IndexPath(f) : f \in Fields(indexConfigs)} \subseteq DOMAIN files'
         /\ \A p \in RecordFiles :
              \E v \in DOMAIN indexes'[indexConfigs[i].Field] :
                \E k \in 1..Len(indexes'[indexConfigs[i].Field][v]) :
                  /\ Unmarshal(files[p]).err = Nil
                  /\ GetObjectPath(Unmarshal(files[p]).e.ID) = p
                  /\ indexes'[indexConfigs[i].Field][v][k]
                       = CreateIndexEntry(Unmarshal(files[p]).e, indexConfigs[i].Field,
                                          indexConfigs[i].Include)
         /\ EntryCount(indexes'[indexConfigs[i].Field]) = Cardinality(RecordFiles)]_vars

\* Init has rebuilt the Age index, whose file it created, on a root with a stat
\* file that holds the pair and two record files below a shard directory
C26_Witness ==
  /\ ret = [op |-> "Init", err |-> Nil]
  /\ removed = 1
  /\ files[IndexPath(AgeField)] = <<>>
  /\ HoldsPair(files[StatPath], ST)
  /\ Cardinality({p \in RecordFiles : Len(p) = 2}) = 2
  /\ EntryCount(indexes[AgeField]) = 2

\* C27: a Find leaves the directories and the files of the root as they are,
\* whether the identifier has a record or not.
C27_FindCreatesNothing ==
  [][\A id \in KnownIDs : FindCall(id) => (dirs' = dirs /\ files' = files)]_vars

\* C28: GetObjectPath gives different identifiers different paths, none of them
\* the path of the stat file, of an index file or of a directory, and an Insert
\* or an Update that changes the bytes of a record file leaves in it a version
\* of the record it held: no record file is overwritten by another record.
C28_PathsDistinct ==
  /\ [](/\ Cardinality(PathsOf(KnownIDs \cup ProbeIDs)) = Cardinality(KnownIDs \cup ProbeIDs)
        /\ PathsOf(KnownIDs \cup ProbeIDs)
              \cap ({StatPath} \cup {IndexPath(f) : f \in Fields(indexConfigs)} \cup dirs
                      \cup UNION {ShardDirsOf(b) : b \in KnownIDs \cup ProbeIDs}) = {})
  /\ [][ret'.op \in {"Insert", "Update"} =>
          \A p \in RecordFiles :
            /\ p \in DOMAIN files'
            /\ files'[p] # files[p] =>
                 /\ Unmarshal(files'[p]).err = Nil
                 /\ Unmarshal(files'[p]).e.ID = Unmarshal(files[p]).e.ID]_vars

\* two records live in files named after identifiers beyond 1000, and the
\* second has been replaced by an Update while the first is as Insert wrote it
C28_Witness ==
  /\ ret = [op |-> "Update", err |-> Nil]
  /\ Len(issued) = 2
  /\ count = 2
  /\ issued[1] > 1000
  /\ Stored(issued[1]).err = Nil /\ Stored(issued[2]).err = Nil
  /\ Stored(issued[1]).e.ID = issued[1] /\ Stored(issued[2]).e.ID = issued[2]
  /\ Stored(issued[1]).e.Name # Stored(issued[2]).e.Name
=============================================================================
